---- MODULE Spec2Model ----
(***************************************************************************)
(* Model of the drug concentration tracker: the pharmacokinetic engine of  *)
(* docs/pharmacokinetics.js (parameter table, dose conversion, the four    *)
(* concentration models, curve sampling) and the session state and         *)
(* handlers of docs/app.js (dose list, plot generation).                   *)
(*                                                                         *)
(* Numbers.  A JavaScript number x is modelled by the integer              *)
(* floor(x * 10^4) (four decimals, truncating), together with the three    *)
(* IEEE-754 specials NaN, Infinity and -Infinity.  Times of day are whole  *)
(* minutes since an arbitrary epoch; an elapsed time in hours is again a   *)
(* four-decimal number.                                                    *)
(***************************************************************************)
EXTENDS Integers, Sequences, FiniteSets, TLC

VARIABLES
    doses,          \* this.doses: the session's dose entries, in insertion order
    clock,          \* the wall clock (Date.now()), in milliseconds
    alertMsg,       \* the alert() raised by the handler that ran last, or "none"
    plotted,        \* what the handler that ran last drew: the plots and the summary
    call,           \* the engine function called last, with its arguments
    ret,            \* what that call returned
    keUsed,         \* the elimination rate constant that call put into its formula
    table           \* the object the params literal of getDrugParams evaluated to
                    \* last, as the call that obtained it left it

vars == <<doses, clock, alertMsg, plotted, call, ret, keUsed, table>>
session == <<doses, clock, alertMsg, plotted>>
engine == <<call, ret, keUsed, table>>

----------------------------------------------------------------------------
(* IEEE-754 arithmetic on four-decimal numbers *)

Scale == 10^4

NaN == 2147483646
Infinity == 2147483645
NegInfinity == -2147483645

IsNaN(x) == x = NaN
IsFinite(x) == x # NaN /\ x # Infinity /\ x # NegInfinity

\* n/d as a four-decimal number (how a decimal literal of the source is written)
Dec(n, d) == (n * Scale) \div d

Abs(x) == IF x < 0 THEN 0 - x ELSE x
Sign(x) == IF x < 0 THEN 0 - 1 ELSE IF x > 0 THEN 1 ELSE 0

Neg(a) ==
    IF IsNaN(a) THEN NaN
    ELSE IF a = Infinity THEN NegInfinity
    ELSE IF a = NegInfinity THEN Infinity
    ELSE 0 - a

Add(a, b) ==
    IF IsNaN(a) \/ IsNaN(b) THEN NaN
    ELSE IF ~IsFinite(a) /\ ~IsFinite(b) THEN (IF a = b THEN a ELSE NaN)
    ELSE IF ~IsFinite(a) THEN a
    ELSE IF ~IsFinite(b) THEN b
    ELSE a + b

Sub(a, b) == Add(a, Neg(b))

\* floor(a*b / Scale) for a, b >= 0, with no intermediate beyond the result
MulNonNeg(a, b) ==
    LET ah == a \div Scale
        al == a % Scale
        bh == b \div Scale
        bl == b % Scale
    IN  ah * bh * Scale + ah * bl + al * bh + (al * bl) \div Scale

Mul(a, b) ==
    IF IsNaN(a) \/ IsNaN(b) THEN NaN
    ELSE IF ~IsFinite(a) \/ ~IsFinite(b)
         THEN (IF a = 0 \/ b = 0 THEN NaN
               ELSE IF Sign(a) * Sign(b) > 0 THEN Infinity ELSE NegInfinity)
    ELSE Sign(a) * Sign(b) * MulNonNeg(Abs(a), Abs(b))

\* floor(r * (product of ms) / b) for 0 <= r < b, one factor at a time
RECURSIVE Product(_)
Product(ms) == IF ms = <<>> THEN 1 ELSE Head(ms) * Product(Tail(ms))

RECURSIVE FracDiv(_, _, _)
FracDiv(r, b, ms) ==
    IF ms = <<>> THEN 0
    ELSE LET x == r * Head(ms)
         IN  (x \div b) * Product(Tail(ms)) + FracDiv(x % b, b, Tail(ms))

\* floor(a * Scale / b) for a >= 0, b > 0
DivNonNeg(a, b) ==
    (a \div b) * Scale + FracDiv(a % b, b, <<2, 2, 2, 2, 5, 5, 5, 5>>)

Div(a, b) ==
    IF IsNaN(a) \/ IsNaN(b) THEN NaN
    ELSE IF ~IsFinite(a) /\ ~IsFinite(b) THEN NaN
    ELSE IF ~IsFinite(a) THEN (IF Sign(a) * Sign(b) >= 0 THEN Infinity ELSE NegInfinity)
    ELSE IF ~IsFinite(b) THEN 0
    ELSE IF b = 0
         THEN (IF a = 0 THEN NaN ELSE IF a > 0 THEN Infinity ELSE NegInfinity)
    ELSE Sign(a) * Sign(b) * DivNonNeg(Abs(a), Abs(b))

\* relational operators: every comparison with NaN is false
Lt(a, b) == ~IsNaN(a) /\ ~IsNaN(b) /\ a < b
Le(a, b) == ~IsNaN(a) /\ ~IsNaN(b) /\ a <= b
Gt(a, b) == Lt(b, a)
Ge(a, b) == Le(b, a)

\* Math.max(a, b): NaN when either argument is NaN
MathMax(a, b) ==
    IF IsNaN(a) \/ IsNaN(b) THEN NaN ELSE IF a >= b THEN a ELSE b

\* e^(-x) for a finite x >= 0: the cubic Taylor polynomial at x/32, squared five
\* times.  Non-increasing in x, exactly 1 at 0, 0 from x = 10 on (e^-10 < 10^-4).
RECURSIVE SquareTimes(_, _)
SquareTimes(p, n) ==
    IF n = 0 THEN p ELSE SquareTimes((p * p) \div Scale, n - 1)

ExpNeg(x) ==
    IF x >= 10 * Scale THEN 0
    ELSE LET y == x \div 32
             y2 == (y * y) \div (2 * Scale)
             y3 == (((y * y) \div Scale) * y) \div (6 * Scale)
             base == ((Scale - y) + y2) - y3
         IN  SquareTimes(base, 5)

\* Math.exp(x)
MathExp(x) ==
    IF IsNaN(x) THEN NaN
    ELSE IF x = Infinity THEN Infinity
    ELSE IF x = NegInfinity THEN 0
    ELSE IF x <= 0 THEN ExpNeg(0 - x)
    ELSE Div(Scale, ExpNeg(x))

----------------------------------------------------------------------------
(* DrugParameters *)

\* The literal `params` of getDrugParams.  A field the source sets to null
\* (alcohol's eliminationRate and halfLife) is left out of the record: it is
\* only ever tested for truthiness.
ParamTable ==
    [ alcohol |->
        [ oral |-> [ bioavailability |-> Dec(85, 100), absorptionRate |-> Dec(1, 1),
                     volumeOfDistribution |-> Dec(53, 100),
                     eliminationCapacity |-> Dec(10, 1), tmax |-> Dec(75, 100) ] ],
      thc |->
        [ oral |-> [ bioavailability |-> Dec(8, 100), absorptionRate |-> Dec(5, 10),
                     eliminationRate |-> Dec(21, 1000), volumeOfDistribution |-> Dec(2, 1),
                     halfLife |-> Dec(33, 1), tmax |-> Dec(15, 10) ],
          inhaled |-> [ bioavailability |-> Dec(25, 100), absorptionRate |-> Dec(12, 1),
                     eliminationRate |-> Dec(21, 1000), volumeOfDistribution |-> Dec(2, 1),
                     halfLife |-> Dec(33, 1), tmax |-> Dec(17, 100) ],
          liquid |-> [ bioavailability |-> Dec(15, 100), absorptionRate |-> Dec(2, 1),
                     eliminationRate |-> Dec(21, 1000), volumeOfDistribution |-> Dec(2, 1),
                     halfLife |-> Dec(33, 1), tmax |-> Dec(5, 10) ] ],
      cbd |->
        [ oral |-> [ bioavailability |-> Dec(6, 100), absorptionRate |-> Dec(5, 10),
                     eliminationRate |-> Dec(38, 1000), volumeOfDistribution |-> Dec(32, 1),
                     halfLife |-> Dec(18, 1), tmax |-> Dec(2, 1) ],
          inhaled |-> [ bioavailability |-> Dec(31, 100), absorptionRate |-> Dec(12, 1),
                     eliminationRate |-> Dec(38, 1000), volumeOfDistribution |-> Dec(32, 1),
                     halfLife |-> Dec(18, 1), tmax |-> Dec(25, 100) ],
          liquid |-> [ bioavailability |-> Dec(15, 100), absorptionRate |-> Dec(2, 1),
                     eliminationRate |-> Dec(38, 1000), volumeOfDistribution |-> Dec(32, 1),
                     halfLife |-> Dec(18, 1), tmax |-> Dec(1, 1) ] ],
      mdma |->
        [ oral |-> [ bioavailability |-> Dec(75, 100), absorptionRate |-> Dec(5, 10),
                     eliminationRate |-> Dec(87, 1000), volumeOfDistribution |-> Dec(4, 1),
                     halfLife |-> Dec(8, 1), tmax |-> Dec(2, 1), nonLinear |-> TRUE ] ],
      psilocybin |->
        [ oral |-> [ bioavailability |-> Dec(53, 100), absorptionRate |-> Dec(5, 10),
                     eliminationRate |-> Dec(231, 1000), volumeOfDistribution |-> Dec(14, 1),
                     halfLife |-> Dec(3, 1), tmax |-> Dec(2, 1) ] ] ]

\* JavaScript values other than numbers and profile records
null == [type |-> "null"]
undefined == [type |-> "undefined"]
ObjectConstructor == [type |-> "function", name |-> "Object"]

\* obj[key] on an object literal whose own properties are `own`: an own property,
\* else what the literal inherits from Object.prototype (its constructor), else
\* undefined.
ObjectGet(own, key) ==
    IF key \in DOMAIN own THEN own[key]
    ELSE IF key = "constructor" THEN ObjectConstructor
    ELSE undefined

\* f[key] on a function object: its own name, what it inherits, else undefined
FunctionGet(f, key) ==
    IF key = "name" THEN [type |-> "string", value |-> f.name]
    ELSE IF key = "constructor" THEN [type |-> "function", name |-> "Function"]
    ELSE undefined

\* an object literal (a route map or a profile), as against the tagged values above
IsPlainObject(v) == "type" \notin DOMAIN v

\* getDrugParams(drugType, route): params[drugType]?.[route] || null
getDrugParams(drugType, route) ==
    LET byDrug == ObjectGet(ParamTable, drugType)
        found == IF byDrug = undefined THEN undefined
                 ELSE IF IsPlainObject(byDrug) THEN ObjectGet(byDrug, route)
                 ELSE FunctionGet(byDrug, route)
    IN  IF found = undefined THEN null ELSE found

\* convertDose with the 'ml' case applied to every substance
convertDose_mlAnySubstance(dose, unit, drugType) ==
    CASE unit = "g" -> Mul(dose, Dec(1000, 1))
      [] unit = "ml" -> Mul(Mul(dose, Dec(789, 1)), Dec(4, 10))
      [] unit = "drinks" ->
            IF drugType = "alcohol" THEN Mul(dose, Dec(14000, 1)) ELSE dose
      [] OTHER -> dose

\* convertDose(dose, unit, drugType)
convertDose(dose, unit, drugType) ==
    CASE unit = "g" -> Mul(dose, Dec(1000, 1))
      [] unit = "ml" ->
            IF drugType = "alcohol" THEN Mul(Mul(dose, Dec(789, 1)), Dec(4, 10))
            ELSE dose
      [] unit = "drinks" ->
            IF drugType = "alcohol" THEN Mul(dose, Dec(14000, 1)) ELSE dose
      [] OTHER -> dose

----------------------------------------------------------------------------
(* PharmacokineticCalculator *)

\* params.field as a number: a field the object lacks reads as undefined, which
\* every arithmetic operation turns into NaN
Field(params, f) ==
    IF IsPlainObject(params) /\ f \in DOMAIN params THEN params[f] ELSE NaN

\* the elimination rate constant each model puts into its formula
oneCompartmentKe(params) == Field(params, "eliminationRate")
mdmaKe(params) == Div(Dec(693, 1000), Field(params, "halfLife"))
psilocybinKe(params) == Div(Dec(693, 1000), Field(params, "halfLife"))

\* oneCompartmentModel(dose, params, timeHours, bodyWeight)
oneCompartmentModel(dose, params, timeHours, bodyWeight) ==
    LET F == Field(params, "bioavailability")
        ka == Field(params, "absorptionRate")
        ke == oneCompartmentKe(params)
        Vd == Mul(Field(params, "volumeOfDistribution"), bodyWeight)
        t == timeHours
        coefficient == Div(Mul(Mul(F, dose), ka), Mul(Vd, Sub(ka, ke)))
        concentration ==
            Mul(coefficient, Sub(MathExp(Mul(Neg(ke), t)), MathExp(Mul(Neg(ka), t))))
    IN  IF Le(t, 0) THEN 0 ELSE MathMax(0, concentration)

\* alcoholModel returning currentBAC without Math.max(0, ...)
alcoholModel_unclamped(dose, params, timeHours, bodyWeight) ==
    LET F == Field(params, "bioavailability")
        tmax == Field(params, "tmax")
        t == timeHours
        doseGrams == Div(dose, Dec(1000, 1))
        effectiveDose == Mul(doseGrams, F)
        drinksEquivalent == Div(effectiveDose, Dec(14, 1))
        peakBAC == Mul(Mul(drinksEquivalent, Dec(30, 1)), Div(Dec(82, 1), bodyWeight))
        eliminationRate == Dec(15, 1)
        eliminationTime == Sub(t, tmax)
        currentBAC == Sub(peakBAC, Mul(eliminationRate, eliminationTime))
    IN  IF Le(t, 0) THEN 0
        ELSE IF Le(t, tmax)
             THEN Mul(peakBAC, Sub(Dec(1, 1), MathExp(Div(Mul(Neg(Dec(3, 1)), t), tmax))))
        ELSE currentBAC

\* alcoholModel without its first line, if (t <= 0) return 0
alcoholModel_noTimeGuard(dose, params, timeHours, bodyWeight) ==
    LET F == Field(params, "bioavailability")
        tmax == Field(params, "tmax")
        t == timeHours
        doseGrams == Div(dose, Dec(1000, 1))
        effectiveDose == Mul(doseGrams, F)
        drinksEquivalent == Div(effectiveDose, Dec(14, 1))
        peakBAC == Mul(Mul(drinksEquivalent, Dec(30, 1)), Div(Dec(82, 1), bodyWeight))
        eliminationRate == Dec(15, 1)
        eliminationTime == Sub(t, tmax)
        currentBAC == Sub(peakBAC, Mul(eliminationRate, eliminationTime))
    IN  IF Le(t, tmax)
        THEN Mul(peakBAC, Sub(Dec(1, 1), MathExp(Div(Mul(Neg(Dec(3, 1)), t), tmax))))
        ELSE MathMax(0, currentBAC)

\* alcoholModel(dose, params, timeHours, bodyWeight)
alcoholModel(dose, params, timeHours, bodyWeight) ==
    LET F == Field(params, "bioavailability")
        tmax == Field(params, "tmax")
        t == timeHours
        doseGrams == Div(dose, Dec(1000, 1))
        effectiveDose == Mul(doseGrams, F)
        drinksEquivalent == Div(effectiveDose, Dec(14, 1))
        peakBAC == Mul(Mul(drinksEquivalent, Dec(30, 1)), Div(Dec(82, 1), bodyWeight))
        eliminationRate == Dec(15, 1)
        eliminationTime == Sub(t, tmax)
        currentBAC == Sub(peakBAC, Mul(eliminationRate, eliminationTime))
    IN  IF Le(t, 0) THEN 0
        ELSE IF Le(t, tmax)
             THEN Mul(peakBAC, Sub(Dec(1, 1), MathExp(Div(Mul(Neg(Dec(3, 1)), t), tmax))))
        ELSE MathMax(0, currentBAC)

\* mdmaModel with the peak scaled by dose only, without 70 / bodyWeight
mdmaModel_noWeightScaling(dose, params, timeHours, bodyWeight) ==
    LET F == Field(params, "bioavailability")
        tmax == Field(params, "tmax")
        t == timeHours
        peakConcentration == Mul(Div(Mul(dose, F), Dec(100, 1)), Dec(200, 1))
        ke == mdmaKe(params)
        ka == Div(Dec(3, 1), tmax)
        maxCoeff == Div(ka, Sub(ka, ke))
        coefficient == Div(peakConcentration, maxCoeff)
        currentConcentration ==
            Mul(coefficient, Sub(MathExp(Mul(Neg(ke), t)), MathExp(Mul(Neg(ka), t))))
    IN  IF Le(t, 0) THEN 0 ELSE MathMax(0, currentConcentration)

\* mdmaModel(dose, params, timeHours, bodyWeight)
mdmaModel(dose, params, timeHours, bodyWeight) ==
    LET F == Field(params, "bioavailability")
        tmax == Field(params, "tmax")
        t == timeHours
        peakConcentration ==
            Mul(Mul(Div(Mul(dose, F), Dec(100, 1)), Dec(200, 1)),
                Div(Dec(70, 1), bodyWeight))
        ke == mdmaKe(params)
        ka == Div(Dec(3, 1), tmax)
        maxCoeff == Div(ka, Sub(ka, ke))
        coefficient == Div(peakConcentration, maxCoeff)
        currentConcentration ==
            Mul(coefficient, Sub(MathExp(Mul(Neg(ke), t)), MathExp(Mul(Neg(ka), t))))
    IN  IF Le(t, 0) THEN 0 ELSE MathMax(0, currentConcentration)

\* psilocybinModel(dose, params, timeHours, bodyWeight)
psilocybinModel(dose, params, timeHours, bodyWeight) ==
    LET F == Field(params, "bioavailability")
        tmax == Field(params, "tmax")
        t == timeHours
        peakConcentration ==
            Mul(Mul(Div(Mul(dose, F), Dec(30, 1)), Dec(21, 1)),
                Div(Dec(70, 1), bodyWeight))
        ke == psilocybinKe(params)
        ka == Div(Dec(3, 1), tmax)
        maxCoeff == Div(ka, Sub(ka, ke))
        coefficient == Div(peakConcentration, maxCoeff)
        currentConcentration ==
            Mul(coefficient, Sub(MathExp(Mul(Neg(ke), t)), MathExp(Mul(Neg(ka), t))))
    IN  IF Le(t, 0) THEN 0 ELSE MathMax(0, currentConcentration)

\* the age adjustment of calculateConcentration: { ...params } with a truthy
\* eliminationRate multiplied by 0.8 when age > 65.  Spreading a value that is
\* not an object literal copies none of a profile's fields.
adjustParams(params, age) ==
    LET ageAdjustment == IF age > 65 THEN Dec(8, 10) ELSE Dec(1, 1)
        spread == IF IsPlainObject(params) THEN params ELSE [copied |-> FALSE]
    IN  IF "eliminationRate" \in DOMAIN spread /\ spread.eliminationRate # 0
        THEN [spread EXCEPT !.eliminationRate = Mul(@, ageAdjustment)]
        ELSE spread

\* const adjustedParams = params, the same object instead of a copy of it
ageAdjustmentObjects_aliased(params, age) ==
    [ params |-> adjustParams(params, age), adjustedParams |-> adjustParams(params, age) ]

\* the two objects of a call of calculateConcentration after its age
\* adjustment: the profile that params refers to, and the object that
\* { ...params } allocated, to which adjustedParams refers and the adjustment
\* is written
ageAdjustmentObjects(params, age) ==
    [ params |-> params, adjustedParams |-> adjustParams(params, age) ]

\* the object of the params literal after a call of calculateConcentration:
\* getDrugParams evaluates the literal anew, and the call leaves the profile it
\* was handed as ageAdjustmentObjects says
tableAfterCalculateConcentration(drugType, route, age) ==
    IF drugType \in DOMAIN ParamTable /\ route \in DOMAIN ParamTable[drugType]
    THEN [ParamTable EXCEPT ![drugType][route] = ageAdjustmentObjects(ParamTable[drugType][route], age).params]
    ELSE ParamTable

\* the dispatch without the branch for 'mdma', which falls through to the
\* one-compartment model
modelFor_withoutMdmaBranch(drugType) ==
    IF drugType = "alcohol" THEN "alcoholModel"
    ELSE IF drugType = "psilocybin" THEN "psilocybinModel"
    ELSE "oneCompartmentModel"

\* which model calculateConcentration hands the call to
modelFor(drugType) ==
    IF drugType = "alcohol" THEN "alcoholModel"
    ELSE IF drugType = "mdma" THEN "mdmaModel"
    ELSE IF drugType = "psilocybin" THEN "psilocybinModel"
    ELSE "oneCompartmentModel"

\* calculateConcentration(dose, drugType, route, timeHours, bodyWeight, age)
calculateConcentration(dose, drugType, route, timeHours, bodyWeight, age) ==
    LET params == getDrugParams(drugType, route)
        adjustedParams == adjustParams(params, age)
    IN  IF params = null THEN 0
        ELSE CASE modelFor(drugType) = "alcoholModel" ->
                    alcoholModel(dose, adjustedParams, timeHours, bodyWeight)
               [] modelFor(drugType) = "mdmaModel" ->
                    mdmaModel(dose, adjustedParams, timeHours, bodyWeight)
               [] modelFor(drugType) = "psilocybinModel" ->
                    psilocybinModel(dose, adjustedParams, timeHours, bodyWeight)
               [] OTHER ->
                    oneCompartmentModel(dose, adjustedParams, timeHours, bodyWeight)

\* the elimination rate constant that enters the formula of a call of
\* calculateConcentration; NaN where the model uses none (alcohol) or no model
\* runs (no profile)
keEntering(drugType, route, age) ==
    LET params == getDrugParams(drugType, route)
        adjustedParams == adjustParams(params, age)
    IN  IF params = null THEN NaN
        ELSE CASE modelFor(drugType) = "alcoholModel" -> NaN
               [] modelFor(drugType) = "mdmaModel" -> mdmaKe(adjustedParams)
               [] modelFor(drugType) = "psilocybinModel" -> psilocybinKe(adjustedParams)
               [] OTHER -> oneCompartmentKe(adjustedParams)

\* Dates are milliseconds since the epoch.  A dose entry's `time` is the text of
\* a datetime-local field: empty (<<>>), or naming a whole minute (<<m>>), and
\* then new Date(time) is that minute's first millisecond.
MsPerMinute == 60 * 1000
MsPerHour == 60 * 60 * 1000
ParseDate(time) == time[1] * MsPerMinute

\* ms / (1000 * 60 * 60) as a four-decimal number of hours (floor, so that the
\* sign of a negative difference is kept)
MsToHours(ms) == ms \div (MsPerHour \div Scale)

\* t * 60 * 60 * 1000 for a four-decimal number of hours t
HoursToMs(t) == t * (MsPerHour \div Scale)

\* the for loop of generateCurve: the values its loop variable takes, from the
\* value t on
RECURSIVE generateCurveFrom(_, _)
generateCurveFrom(t, duration) ==
    IF ~Le(t, duration) THEN <<>>
    ELSE LET step == IF Le(t, Dec(12, 1)) THEN Dec(25, 100) ELSE Dec(1, 1)
         IN  <<t>> \o generateCurveFrom(Add(t, step), duration)

\* the loop body of generateCurve, over the values ts of the loop variable
generateCurveOver(ts, dose, drugType, route, startTime, bodyWeight, age) ==
    [ timePoints |-> [i \in 1..Len(ts) |-> startTime + HoursToMs(ts[i])],
      concentrations |->
          [i \in 1..Len(ts) |->
              calculateConcentration(dose, drugType, route, ts[i], bodyWeight, age)] ]

\* generateCurve with its loop started at t = 0.25 instead of t = 0
generateCurve_fromFirstStep(dose, drugType, route, startTime, bodyWeight, age, duration) ==
    generateCurveOver(generateCurveFrom(Dec(25, 100), duration),
                      dose, drugType, route, startTime, bodyWeight, age)

\* generateCurve(dose, drugType, route, startTime, bodyWeight, age, duration)
generateCurve(dose, drugType, route, startTime, bodyWeight, age, duration) ==
    generateCurveOver(generateCurveFrom(0, duration),
                      dose, drugType, route, startTime, bodyWeight, age)

\* getCurrentConcentration handing the entry's quantity on without convertDose
getCurrentConcentration_noConvert(doseEntry, currentTime, bodyWeight, age) ==
    LET timeDiffMs == currentTime - ParseDate(doseEntry.time)
        timeHours == MsToHours(timeDiffMs)
    IN  IF Lt(timeHours, 0) THEN 0
        ELSE calculateConcentration(doseEntry.dose, doseEntry.drug, doseEntry.route,
                                    timeHours, bodyWeight, age)

\* getCurrentConcentration(doseEntry, currentTime, bodyWeight, age)
getCurrentConcentration(doseEntry, currentTime, bodyWeight, age) ==
    LET timeDiffMs == currentTime - ParseDate(doseEntry.time)
        timeHours == MsToHours(timeDiffMs)
        dose == convertDose(doseEntry.dose, doseEntry.unit, doseEntry.drug)
    IN  IF Lt(timeHours, 0) THEN 0
        ELSE calculateConcentration(dose, doseEntry.drug, doseEntry.route,
                                    timeHours, bodyWeight, age)

----------------------------------------------------------------------------
(* DrugNormalization *)

\* the literal `factors` of getSubjectiveEffectsFactor
SubjectiveEffectsFactors ==
    [ alcohol |-> Dec(1, 1), thc |-> Dec(8, 1), cbd |-> Dec(2, 1),
      mdma |-> Dec(4, 10), psilocybin |-> Dec(4, 1) ]

\* getSubjectiveEffectsFactor(drugType): factors[drugType] || 1.0.  A function
\* object is truthy and is returned as it is; as a factor it is NaN.
getSubjectiveEffectsFactor(drugType) ==
    IF drugType \in DOMAIN SubjectiveEffectsFactors
    THEN SubjectiveEffectsFactors[drugType]
    ELSE IF ObjectGet(SubjectiveEffectsFactors, drugType) = undefined THEN Dec(1, 1)
    ELSE NaN

\* normalizeToSubjectiveEffects(concentration, drugType)
normalizeToSubjectiveEffects(concentration, drugType) ==
    Mul(concentration, getSubjectiveEffectsFactor(drugType))

\* getImpairmentLevel comparing with <= where the source compares with <
getImpairmentLevel_inclusive(alcoholEquivalentBAC) ==
    IF Le(alcoholEquivalentBAC, Dec(10, 1)) THEN "Minimal"
    ELSE IF Le(alcoholEquivalentBAC, Dec(30, 1)) THEN "Mild"
    ELSE IF Le(alcoholEquivalentBAC, Dec(50, 1)) THEN "Moderate"
    ELSE IF Le(alcoholEquivalentBAC, Dec(80, 1)) THEN "Significant"
    ELSE IF Le(alcoholEquivalentBAC, Dec(150, 1)) THEN "Severe"
    ELSE "Dangerous"

\* getImpairmentLevel with the labels of its fourth and fifth band exchanged
getImpairmentLevel_swapped(alcoholEquivalentBAC) ==
    IF Lt(alcoholEquivalentBAC, Dec(10, 1)) THEN "Minimal"
    ELSE IF Lt(alcoholEquivalentBAC, Dec(30, 1)) THEN "Mild"
    ELSE IF Lt(alcoholEquivalentBAC, Dec(50, 1)) THEN "Moderate"
    ELSE IF Lt(alcoholEquivalentBAC, Dec(80, 1)) THEN "Severe"
    ELSE IF Lt(alcoholEquivalentBAC, Dec(150, 1)) THEN "Significant"
    ELSE "Dangerous"

\* getImpairmentLevel(alcoholEquivalentBAC)
getImpairmentLevel(alcoholEquivalentBAC) ==
    IF Lt(alcoholEquivalentBAC, Dec(10, 1)) THEN "Minimal"
    ELSE IF Lt(alcoholEquivalentBAC, Dec(30, 1)) THEN "Mild"
    ELSE IF Lt(alcoholEquivalentBAC, Dec(50, 1)) THEN "Moderate"
    ELSE IF Lt(alcoholEquivalentBAC, Dec(80, 1)) THEN "Significant"
    ELSE IF Lt(alcoholEquivalentBAC, Dec(150, 1)) THEN "Severe"
    ELSE "Dangerous"

----------------------------------------------------------------------------
(* Text fields of the page *)

\* A field's text is a sequence of one-character strings.
DigitValue(c) ==
    CASE c = "0" -> 0 [] c = "1" -> 1 [] c = "2" -> 2 [] c = "3" -> 3 [] c = "4" -> 4
      [] c = "5" -> 5 [] c = "6" -> 6 [] c = "7" -> 7 [] c = "8" -> 8 [] c = "9" -> 9
      [] OTHER -> 0 - 1

\* how many digits text holds from position i on
RECURSIVE DigitRun(_, _)
DigitRun(text, i) ==
    IF i > Len(text) \/ DigitValue(text[i]) < 0 THEN 0 ELSE 1 + DigitRun(text, i + 1)

\* the decimal number written by the n digits of text from position i on
RECURSIVE DigitsValue(_, _, _)
DigitsValue(text, i, n) ==
    IF n = 0 THEN 0
    ELSE DigitsValue(text, i, n - 1) * 10 + DigitValue(text[i + n - 1])

\* parseFloat(text): an optional sign, digits, an optional fraction; NaN when
\* no digit is found there.  Fraction digits beyond the fourth are dropped.
parseFloat(text) ==
    LET signed == Len(text) >= 1 /\ text[1] \in {"-", "+"}
        first == IF signed THEN 2 ELSE 1
        intLen == DigitRun(text, first)
        dot == first + intLen
        hasDot == dot <= Len(text) /\ text[dot] = "."
        fracLen == IF hasDot THEN DigitRun(text, dot + 1) ELSE 0
        kept == IF fracLen > 4 THEN 4 ELSE fracLen
        magnitude == DigitsValue(text, first, intLen) * Scale
                       + DigitsValue(text, dot + 1, kept) * 10^(4 - kept)
    IN  IF intLen = 0 /\ fracLen = 0 THEN NaN
        ELSE IF signed /\ text[1] = "-" THEN 0 - magnitude
        ELSE magnitude

\* parseInt(text): an optional sign and digits, as a whole number; NaN when no
\* digit is found there
parseInt(text) ==
    LET signed == Len(text) >= 1 /\ text[1] \in {"-", "+"}
        first == IF signed THEN 2 ELSE 1
        intLen == DigitRun(text, first)
        magnitude == DigitsValue(text, first, intLen)
    IN  IF intLen = 0 THEN NaN
        ELSE IF signed /\ text[1] = "-" THEN 0 - magnitude
        ELSE magnitude

\* x || fallback for a number x
OrElse(x, fallback) == IF IsNaN(x) \/ x = 0 THEN fallback ELSE x

----------------------------------------------------------------------------
(* DrugConcentrationApp: what the handlers compute *)

\* the options updateDoseUnits puts into the unit selector
unitOptions(drugType) ==
    IF drugType = "alcohol" THEN {"ml", "drinks", "mg", "g"} ELSE {"mg", "g"}

\* the options updateRouteOptions puts into the route selector
routeOptions(drugType) ==
    CASE drugType = "alcohol" -> {"oral"}
      [] drugType = "thc" -> {"oral", "inhaled", "liquid"}
      [] drugType = "cbd" -> {"oral", "inhaled", "liquid"}
      [] drugType = "mdma" -> {"oral"}
      [] drugType = "psilocybin" -> {"oral"}
      [] OTHER -> {"oral"}

\* getDrugDuration(drugType): durations[drugType] || 24, in whole hours
DrugDurations == [alcohol |-> 16, thc |-> 24, mdma |-> 24, psilocybin |-> 12]

getDrugDuration(drugType) ==
    IF drugType \in DOMAIN DrugDurations THEN DrugDurations[drugType]
    ELSE IF ObjectGet(DrugDurations, drugType) = undefined THEN 24
    ELSE NaN

MathMin(a, b) == IF IsNaN(a) \/ IsNaN(b) THEN NaN ELSE IF a <= b THEN a ELSE b

\* Math.min(...) and Math.max(...) of a non-empty set of dates
EarliestOf(times) == CHOOSE t \in times : \A u \in times : t <= u
LatestOf(times) == CHOOSE t \in times : \A u \in times : t >= u

\* roundedNow: the clock reading set back to the half hour (minutes floored to
\* a multiple of 30, seconds and milliseconds zeroed)
roundedNow(now) == now - (now % (30 * MsPerMinute))

\* the substances of the dose list in the order Object.entries(drugGroups)
\* yields them: by first appearance
RECURSIVE drugGroupKeys(_)
drugGroupKeys(ds) ==
    IF ds = <<>> THEN <<>>
    ELSE LET rest == drugGroupKeys(SubSeq(ds, 1, Len(ds) - 1))
             drug == ds[Len(ds)].drug
         IN  IF \E i \in 1..Len(rest) : rest[i] = drug THEN rest ELSE Append(rest, drug)

\* drugGroups[drugType]: that substance's entries, in list order
drugGroup(ds, drugType) == SelectSeq(ds, LAMBDA d : d.drug = drugType)

\* The arguments with which the plot loops can call calculateConcentration, and
\* its value at each, computed once: the loops read their calls from this table.
InputDrugs == {"alcohol", "thc"}
InputDoseTexts == {<<>>, <<"a">>, <<"0">>, <<"9">>, <<"-", "2">>}
InputUnits == {"drinks", "g"}
InputRoutes == {"oral", "inhaled"}
InputTimes == {<<>>, <<0>>, <<20>>}
InputWeightTexts == {<<"8", "2">>}
InputAgeTexts == {<<>>}

TabulatedSteps == 25 * 12

TabulatedArguments ==
    { <<convertDose(parseFloat(dt), u, d), d, r,
        OrElse(parseFloat(wt), Dec(70, 1)), OrElse(parseInt(at), 25)>> :
        dt \in {x \in InputDoseTexts : OrElse(parseFloat(x), 0) # 0},
        u \in InputUnits, d \in InputDrugs, r \in InputRoutes,
        wt \in InputWeightTexts, at \in InputAgeTexts }

Tabulated ==
    [ a \in { b \in TabulatedArguments : b[3] \in routeOptions(b[2]) } |->
        [ k \in 1..(TabulatedSteps + 1) |->
            calculateConcentration(a[1], a[2], a[3],
                                   MsToHours(5 * (k - 1) * MsPerMinute),
                                   a[4], a[5]) ] @@ <<>> ] @@ <<>>

TabulatedDomain == DOMAIN Tabulated

\* PharmacokineticCalculator.calculateConcentration(...) as the plot loops call it
PharmacokineticCalculator_calculateConcentration(dose, drugType, route, timeHours, bodyWeight, age) ==
    LET a == <<dose, drugType, route, bodyWeight, age>>
        k == (HoursToMs(timeHours) + (5 * MsPerMinute - 1)) \div (5 * MsPerMinute)
    IN  IF /\ a \in TabulatedDomain
           /\ timeHours >= 0
           /\ timeHours <= Dec(TabulatedSteps, 12)
           /\ k <= TabulatedSteps
           /\ MsToHours(5 * k * MsPerMinute) = timeHours
        THEN Tabulated[a][k + 1]
        ELSE calculateConcentration(dose, drugType, route, timeHours, bodyWeight, age)

\* the entries of a list for which getCurrentConcentration goes on to call
\* calculateConcentration: those not in the future (timeHours >= 0)
startedBy(ds, currentTime) ==
    SelectSeq(ds, LAMBDA d : ~Lt(MsToHours(currentTime - ParseDate(d.time)), 0))

\* the object of the params literal after calculateConcentration was called for
\* each entry of a sequence in turn: as the last call left it, and as it was
\* when there was no call
tableAfterCalls(entries, age, before) ==
    IF entries = <<>> THEN before
    ELSE tableAfterCalculateConcentration(entries[Len(entries)].drug,
                                          entries[Len(entries)].route, age)

\* a dose's contribution computed from the entry's quantity as typed, without
\* convertDose
concentrationContribution_noConvert(doseEntry, currentTime, bodyWeight, age) ==
    LET doseTime == ParseDate(doseEntry.time)
        timeDiffHours == MsToHours(currentTime - doseTime)
    IN  IF Ge(timeDiffHours, 0)
        THEN calculateConcentration(doseEntry.dose, doseEntry.drug, doseEntry.route,
                                    timeDiffHours, bodyWeight, age)
        ELSE 0

\* what one dose adds to totalConcentration at a grid time, in the
\* concentration plot
concentrationContribution(doseEntry, currentTime, bodyWeight, age) ==
    LET doseTime == ParseDate(doseEntry.time)
        timeDiffHours == MsToHours(currentTime - doseTime)
        dose == convertDose(doseEntry.dose, doseEntry.unit, doseEntry.drug)
    IN  IF Ge(timeDiffHours, 0)
        THEN PharmacokineticCalculator_calculateConcentration(
                 dose, doseEntry.drug, doseEntry.route, timeDiffHours, bodyWeight, age)
        ELSE 0

\* the contribution to the subjective-effects plot left as a concentration,
\* without normalizeToSubjectiveEffects
subjectiveContribution_notNormalized(doseEntry, currentTime, bodyWeight, age) ==
    LET doseTime == ParseDate(doseEntry.time)
        timeDiffHours == MsToHours(currentTime - doseTime)
        dose == convertDose(doseEntry.dose, doseEntry.unit, doseEntry.drug)
    IN  IF Ge(timeDiffHours, 0)
        THEN PharmacokineticCalculator_calculateConcentration(
                 dose, doseEntry.drug, doseEntry.route, timeDiffHours, bodyWeight, age)
        ELSE 0

\* the same in the subjective-effects plot
subjectiveContribution(doseEntry, currentTime, bodyWeight, age) ==
    LET doseTime == ParseDate(doseEntry.time)
        timeDiffHours == MsToHours(currentTime - doseTime)
        dose == convertDose(doseEntry.dose, doseEntry.unit, doseEntry.drug)
    IN  IF Ge(timeDiffHours, 0)
        THEN normalizeToSubjectiveEffects(
                 PharmacokineticCalculator_calculateConcentration(
                     dose, doseEntry.drug, doseEntry.route, timeDiffHours,
                     bodyWeight, age),
                 doseEntry.drug)
        ELSE 0

\* the loop body assigning (=) where the source accumulates (+=): the total is
\* the last entry's contribution
totalAfter_lastOnly(group, n, currentTime, bodyWeight, age, plot) ==
    IF n = 0 THEN 0
    ELSE IF plot = "subjectivePlot"
         THEN subjectiveContribution(group[n], currentTime, bodyWeight, age)
         ELSE concentrationContribution(group[n], currentTime, bodyWeight, age)

\* doses.forEach(...) of the plot loops: totalConcentration after the first n
\* entries of the group, in the plot drawn into element `plot`
RECURSIVE totalAfter(_, _, _, _, _, _)
totalAfter(group, n, currentTime, bodyWeight, age, plot) ==
    IF n = 0 THEN 0
    ELSE Add(totalAfter(group, n - 1, currentTime, bodyWeight, age, plot),
             IF plot = "subjectivePlot"
             THEN subjectiveContribution(group[n], currentTime, bodyWeight, age)
             ELSE concentrationContribution(group[n], currentTime, bodyWeight, age))

\* one substance's trace with the grid started at the rounded clock reading
\* whatever the dose times (plotStart = startTime)
combinedTrace_fromRoundedNow(ds, drugType, bodyWeight, age, now, plot) ==
    LET group == drugGroup(ds, drugType)
        doseTimes == {ParseDate(group[i].time) : i \in 1..Len(group)}
        latestDose == LatestOf(doseTimes)
        drugDuration == MathMin(24, getDrugDuration(drugType))
        plotStart == roundedNow(now)
        plotEnd == latestDose + drugDuration * MsPerHour
        step == 15 * MsPerMinute
        count == IF plotStart > plotEnd THEN 0 ELSE (plotEnd - plotStart) \div step + 1
        timePoints == [i \in 1..count |-> plotStart + (i - 1) * step]
    IN  [ drug |-> drugType,
          doseCount |-> Len(group),
          x |-> timePoints,
          y |-> [i \in 1..count |->
                    totalAfter(group, Len(group), timePoints[i], bodyWeight, age,
                               plot)] ]

\* one substance's trace: the 15-minute grid from plotStart to plotEnd and the
\* total at each grid time
combinedTrace(ds, drugType, bodyWeight, age, now, plot) ==
    LET group == drugGroup(ds, drugType)
        doseTimes == {ParseDate(group[i].time) : i \in 1..Len(group)}
        earliestDose == EarliestOf(doseTimes)
        latestDose == LatestOf(doseTimes)
        drugDuration == MathMin(24, getDrugDuration(drugType))
        startTime == roundedNow(now)
        plotStart == IF startTime <= earliestDose THEN startTime ELSE earliestDose
        plotEnd == latestDose + drugDuration * MsPerHour
        step == 15 * MsPerMinute
        count == IF plotStart > plotEnd THEN 0 ELSE (plotEnd - plotStart) \div step + 1
        timePoints == [i \in 1..count |-> plotStart + (i - 1) * step]
    IN  [ drug |-> drugType,
          doseCount |-> Len(group),
          x |-> timePoints,
          y |-> [i \in 1..count |->
                    totalAfter(group, Len(group), timePoints[i], bodyWeight, age,
                               plot)] ]

\* generateConcentrationPlot(bodyWeight, age): the substance traces handed to
\* Plotly.newPlot('plot', ...), read off this.doses and the clock.  The
\* current-time marker trace and the layout are not modelled.
generateConcentrationPlot(ds, bodyWeight, age, now) ==
    LET keys == drugGroupKeys(ds)
    IN  [k \in 1..Len(keys) |->
            combinedTrace(ds, keys[k], bodyWeight, age, now, "plot")]

\* generateSubjectiveEffectsPlot(bodyWeight, age): likewise for 'subjectivePlot'
generateSubjectiveEffectsPlot(ds, bodyWeight, age, now) ==
    LET keys == drugGroupKeys(ds)
    IN  [k \in 1..Len(keys) |->
            combinedTrace(ds, keys[k], bodyWeight, age, now, "subjectivePlot")]

\* the summary loop counting every entry with a concentration above 0, without
\* the 0.01 noise floor
RECURSIVE summaryAfter_noFloor(_, _, _, _, _)
summaryAfter_noFloor(ds, n, bodyWeight, age, now) ==
    IF n = 0 THEN [shown |-> <<>>, totalSubjectiveEffects |-> 0]
    ELSE LET before == summaryAfter_noFloor(ds, n - 1, bodyWeight, age, now)
             doseEntry == ds[n]
             currentConc == getCurrentConcentration(doseEntry, now, bodyWeight, age)
             subjectiveLevel == normalizeToSubjectiveEffects(currentConc, doseEntry.drug)
         IN  IF Gt(currentConc, 0)
             THEN [ shown |-> Append(before.shown,
                                     [ id |-> doseEntry.id, currentConc |-> currentConc,
                                       subjectiveLevel |-> subjectiveLevel ]),
                    totalSubjectiveEffects |->
                        Add(before.totalSubjectiveEffects, subjectiveLevel) ]
             ELSE before

\* this.doses.forEach(...) of displayCurrentConcentrations: the entries shown
\* and totalSubjectiveEffects after the first n entries
RECURSIVE summaryAfter(_, _, _, _, _)
summaryAfter(ds, n, bodyWeight, age, now) ==
    IF n = 0 THEN [shown |-> <<>>, totalSubjectiveEffects |-> 0]
    ELSE LET before == summaryAfter(ds, n - 1, bodyWeight, age, now)
             doseEntry == ds[n]
             currentConc == getCurrentConcentration(doseEntry, now, bodyWeight, age)
             subjectiveLevel == normalizeToSubjectiveEffects(currentConc, doseEntry.drug)
         IN  IF Gt(currentConc, Dec(1, 100))
             THEN [ shown |-> Append(before.shown,
                                     [ id |-> doseEntry.id, currentConc |-> currentConc,
                                       subjectiveLevel |-> subjectiveLevel ]),
                    totalSubjectiveEffects |->
                        Add(before.totalSubjectiveEffects, subjectiveLevel) ]
             ELSE before

\* displayCurrentConcentrations(bodyWeight, age): what the summary shows
displayCurrentConcentrations(ds, bodyWeight, age, now) ==
    LET result == summaryAfter(ds, Len(ds), bodyWeight, age, now)
        total == result.totalSubjectiveEffects
    IN  [ shown |-> result.shown,
          totalSubjectiveEffects |-> total,
          impairmentLevel |-> getImpairmentLevel(total),
          noSignificant |-> Lt(total, Dec(5, 1)) ]

----------------------------------------------------------------------------
(* The session: DrugConcentrationApp's state and handlers *)

MaxDoses == 2

ClockValues == {10 * MsPerMinute, 70 * MsPerMinute}

NoPlot == [drawn |-> FALSE]
NoCall == [fn |-> "none"]

Init ==
    /\ doses = <<>>
    /\ clock = 10 * MsPerMinute
    /\ alertMsg = "none"
    /\ plotted = NoPlot
    /\ call = NoCall
    /\ ret = 0
    /\ keUsed = NaN
    /\ table = ParamTable

\* time passes
Tick ==
    /\ \E c \in ClockValues : c > clock /\ clock' = c
    /\ UNCHANGED <<doses, alertMsg, plotted, engine>>

\* addDose() turning away every quantity that is not above zero
addDose_positiveOnly(drugType, doseText, doseUnit, route, timeOfDose) ==
    LET dose == parseFloat(doseText)
        doseEntry == [ id |-> clock, drug |-> drugType, dose |-> dose,
                       unit |-> doseUnit, route |-> route, time |-> timeOfDose ]
    IN  /\ IF IsNaN(dose) \/ dose <= 0 \/ timeOfDose = <<>>
           THEN /\ alertMsg' = "Please fill in dose and time fields"
                /\ doses' = doses
           ELSE /\ Len(doses) < MaxDoses
                /\ doses' = Append(doses, doseEntry)
                /\ alertMsg' = "none"
        /\ plotted' = NoPlot
        /\ UNCHANGED <<clock, engine>>

\* addDose(), the form's fields holding the given texts and selections
addDose(drugType, doseText, doseUnit, route, timeOfDose) ==
    LET dose == parseFloat(doseText)
        doseEntry == [ id |-> clock, drug |-> drugType, dose |-> dose,
                       unit |-> doseUnit, route |-> route, time |-> timeOfDose ]
    IN  /\ IF IsNaN(dose) \/ dose = 0 \/ timeOfDose = <<>>
           THEN /\ alertMsg' = "Please fill in dose and time fields"
                /\ doses' = doses
           ELSE /\ Len(doses) < MaxDoses
                /\ doses' = Append(doses, doseEntry)
                /\ alertMsg' = "none"
        /\ plotted' = NoPlot
        /\ UNCHANGED <<clock, engine>>

\* addDose() putting the new entry at the front of the list (unshift for push)
AddDose_atFront ==
    \E drugType \in InputDrugs, doseText \in InputDoseTexts,
       timeOfDose \in InputTimes :
    \E doseUnit \in unitOptions(drugType) \cap InputUnits,
       route \in routeOptions(drugType) \cap InputRoutes :
        LET dose == parseFloat(doseText)
            doseEntry == [ id |-> clock, drug |-> drugType, dose |-> dose,
                           unit |-> doseUnit, route |-> route, time |-> timeOfDose ]
        IN  /\ IF IsNaN(dose) \/ dose = 0 \/ timeOfDose = <<>>
               THEN /\ alertMsg' = "Please fill in dose and time fields"
                    /\ doses' = doses
               ELSE /\ Len(doses) < MaxDoses
                    /\ doses' = <<doseEntry>> \o doses
                    /\ alertMsg' = "none"
            /\ plotted' = NoPlot
            /\ UNCHANGED <<clock, engine>>

\* addDose(), with the form's fields as the user left them
AddDose ==
    \E drugType \in InputDrugs, doseText \in InputDoseTexts,
       timeOfDose \in InputTimes :
    \E doseUnit \in unitOptions(drugType) \cap InputUnits,
       route \in routeOptions(drugType) \cap InputRoutes :
        addDose(drugType, doseText, doseUnit, route, timeOfDose)

\* removeDose(id), from the Remove button of a listed entry
RemoveDose ==
    \E i \in 1..Len(doses) :
        /\ doses' = SelectSeq(doses, LAMBDA d : d.id # doses[i].id)
        /\ alertMsg' = "none"
        /\ plotted' = NoPlot
        /\ UNCHANGED <<clock, engine>>

\* clearAllDoses()
ClearAllDoses ==
    /\ doses' = <<>>
    /\ alertMsg' = "none"
    /\ plotted' = NoPlot
    /\ UNCHANGED <<clock, engine>>

\* updatePlot() without its first statement, the test of this.doses.length
UpdatePlot_withoutLengthTest ==
    \E weightText \in InputWeightTexts, ageText \in InputAgeTexts :
        LET bodyWeight == OrElse(parseFloat(weightText), Dec(70, 1))
            age == OrElse(parseInt(ageText), 25)
        IN  /\ alertMsg' = "none"
            /\ plotted' =
                 [ drawn |-> TRUE, bodyWeight |-> bodyWeight, age |-> age,
                   now |-> clock,
                   plotData |->
                       generateConcentrationPlot(doses, bodyWeight, age, clock),
                   currentSummary |->
                       displayCurrentConcentrations(doses, bodyWeight, age, clock),
                   subjectivePlotData |->
                       generateSubjectiveEffectsPlot(doses, bodyWeight, age, clock) ]
            /\ UNCHANGED <<doses, clock, engine>>

\* updatePlot(), with the body weight and age fields as the user left them
UpdatePlot ==
    \E weightText \in InputWeightTexts, ageText \in InputAgeTexts :
        LET bodyWeight == OrElse(parseFloat(weightText), Dec(70, 1))
            age == OrElse(parseInt(ageText), 25)
        IN  /\ IF Len(doses) = 0
               THEN /\ alertMsg' = "Please add at least one dose to generate a plot"
                    /\ plotted' = NoPlot
               ELSE /\ alertMsg' = "none"
                    /\ plotted' =
                         [ drawn |-> TRUE, bodyWeight |-> bodyWeight, age |-> age,
                           now |-> clock,
                           plotData |->
                               generateConcentrationPlot(doses, bodyWeight, age, clock),
                           currentSummary |->
                               displayCurrentConcentrations(doses, bodyWeight, age, clock),
                           subjectivePlotData |->
                               generateSubjectiveEffectsPlot(doses, bodyWeight, age, clock) ]
            /\ UNCHANGED <<doses, clock, engine>>

Next == Tick \/ AddDose \/ RemoveDose \/ ClearAllDoses \/ UpdatePlot

Spec == Init /\ [][Next]_vars

----------------------------------------------------------------------------
(* The engine on its own: each function applied to arguments of bounded sets *)

EngineDrugs == {"alcohol", "thc", "cbd", "mdma", "psilocybin", "caffeine", "constructor"}
EngineRoutes == {"oral", "inhaled", "liquid", "iv", "name"}
EngineUnits == {"mg", "g", "ml", "drinks", "oz"}
EngineQuantities == {0, Dec(1, 1), Dec(15, 10), Dec(2, 1)}
EngineDoses == {0 - Dec(10, 1), 0, Dec(10, 1), Dec(150, 1), Dec(14000, 1)}
EngineTimes == {0 - Dec(1, 1), 0, Dec(25, 100), Dec(75, 100), Dec(8, 10), Dec(1, 1),
                Dec(2, 1), Dec(12, 1), Dec(40, 1)}
EngineWeights == {Dec(50, 1), Dec(70, 1), Dec(82, 1)}
EngineAges == {25, 65, 66}
EngineDurations == {0 - Dec(1, 1), 0, Dec(1, 10), Dec(1, 1), Dec(12, 1), Dec(1225, 100),
                    Dec(123, 10), Dec(13, 1), Dec(145, 10), Dec(16, 1)}
EngineStarts == {0, 90 * MsPerMinute}
EngineNows == {0, 10 * MsPerMinute, 20 * MsPerMinute, 20 * MsPerMinute + 1,
               80 * MsPerMinute}

CallGetDrugParams ==
    /\ call = NoCall
    /\ \E drugType \in EngineDrugs, route \in EngineRoutes :
        /\ call' = [fn |-> "getDrugParams", drugType |-> drugType, route |-> route]
        /\ ret' = getDrugParams(drugType, route)
        /\ keUsed' = NaN
        /\ table' = ParamTable
        /\ UNCHANGED session

CallConvertDose ==
    /\ call = NoCall
    /\ \E dose \in EngineQuantities, unit \in EngineUnits, drugType \in EngineDrugs :
        /\ call' = [fn |-> "convertDose", dose |-> dose, unit |-> unit,
                    drugType |-> drugType]
        /\ ret' = convertDose(dose, unit, drugType)
        /\ keUsed' = NaN
        /\ table' = table
        /\ UNCHANGED session

CallCalculateConcentration ==
    /\ call = NoCall
    /\ \E dose \in EngineDoses, drugType \in EngineDrugs, route \in EngineRoutes,
       timeHours \in EngineTimes, bodyWeight \in EngineWeights, age \in EngineAges :
        /\ call' = [fn |-> "calculateConcentration", dose |-> dose,
                    drugType |-> drugType, route |-> route, timeHours |-> timeHours,
                    bodyWeight |-> bodyWeight, age |-> age]
        /\ ret' = calculateConcentration(dose, drugType, route, timeHours, bodyWeight, age)
        /\ keUsed' = keEntering(drugType, route, age)
        /\ table' = tableAfterCalculateConcentration(drugType, route, age)
        /\ UNCHANGED session

CallGenerateCurve ==
    /\ call = NoCall
    /\ \E drugType \in {"alcohol", "thc", "caffeine"}, startTime \in EngineStarts,
       duration \in EngineDurations :
        /\ call' = [fn |-> "generateCurve", dose |-> Dec(10, 1), drugType |-> drugType,
                    route |-> "oral", startTime |-> startTime,
                    bodyWeight |-> Dec(70, 1), age |-> 25, duration |-> duration]
        /\ ret' = generateCurve(Dec(10, 1), drugType, "oral", startTime, Dec(70, 1), 25,
                                duration)
        /\ keUsed' = NaN
        /\ table' = tableAfterCalls(IF generateCurveFrom(0, duration) = <<>> THEN <<>>
                                    ELSE <<[drug |-> drugType, route |-> "oral"]>>, 25, table)
        /\ UNCHANGED session

CallGetCurrentConcentration ==
    /\ call = NoCall
    /\ \E drugType \in EngineDrugs, dose \in {0, Dec(2, 1)}, unit \in {"mg", "g", "drinks"},
       route \in EngineRoutes, time \in {<<0>>, <<20>>}, currentTime \in EngineNows,
       age \in {25, 70} :
        LET doseEntry == [ id |-> 0, drug |-> drugType, dose |-> dose, unit |-> unit,
                           route |-> route, time |-> time ]
        IN  /\ call' = [fn |-> "getCurrentConcentration", doseEntry |-> doseEntry,
                        currentTime |-> currentTime, bodyWeight |-> Dec(70, 1),
                        age |-> age]
            /\ ret' = getCurrentConcentration(doseEntry, currentTime, Dec(70, 1), age)
            /\ keUsed' = NaN
            /\ table' = tableAfterCalls(startedBy(<<doseEntry>>, currentTime), age, table)
            /\ UNCHANGED session

\* levels at, and one ten-thousandth below, each breakpoint
EngineLevels ==
    { 0, Dec(10, 1) - 1, Dec(10, 1), Dec(30, 1) - 1, Dec(30, 1), Dec(50, 1) - 1,
      Dec(50, 1), Dec(80, 1) - 1, Dec(80, 1), Dec(150, 1) - 1, Dec(150, 1),
      Dec(1000, 1) }
EngineConcentrations == {0, Dec(5, 10), Dec(10, 1), Dec(12345, 100) + 67}

CallGetImpairmentLevel ==
    /\ call = NoCall
    /\ \E alcoholEquivalentBAC \in EngineLevels :
        /\ call' = [fn |-> "getImpairmentLevel",
                    alcoholEquivalentBAC |-> alcoholEquivalentBAC]
        /\ ret' = getImpairmentLevel(alcoholEquivalentBAC)
        /\ keUsed' = NaN
        /\ table' = table
        /\ UNCHANGED session

CallNormalizeToSubjectiveEffects ==
    /\ call = NoCall
    /\ \E concentration \in EngineConcentrations, drugType \in EngineDrugs :
        /\ call' = [fn |-> "normalizeToSubjectiveEffects",
                    concentration |-> concentration, drugType |-> drugType]
        /\ ret' = normalizeToSubjectiveEffects(concentration, drugType)
        /\ keUsed' = NaN
        /\ table' = table
        /\ UNCHANGED session

\* dose entries for the summary: two drinks, 2 g and 10 mg of THC by mouth (the
\* latter stays below 0.01), MDMA taken two hours from the epoch, and a
\* substance without a profile
EngineEntries ==
    { [id |-> 1, drug |-> "alcohol", dose |-> Dec(2, 1), unit |-> "drinks",
       route |-> "oral", time |-> <<0>>],
      [id |-> 2, drug |-> "thc", dose |-> Dec(2, 1), unit |-> "g",
       route |-> "oral", time |-> <<0>>],
      [id |-> 3, drug |-> "thc", dose |-> Dec(10, 1), unit |-> "mg",
       route |-> "oral", time |-> <<0>>],
      [id |-> 4, drug |-> "mdma", dose |-> Dec(100, 1), unit |-> "mg",
       route |-> "oral", time |-> <<120>>],
      [id |-> 5, drug |-> "caffeine", dose |-> Dec(100, 1), unit |-> "mg",
       route |-> "oral", time |-> <<0>>] }
EngineLists ==
    {<<>>} \cup {<<a>> : a \in EngineEntries}
           \cup {<<a, b>> : a \in EngineEntries, b \in EngineEntries}

CallDisplayCurrentConcentrations ==
    /\ call = NoCall
    /\ \E ds \in EngineLists, now \in {60 * MsPerMinute, 180 * MsPerMinute} :
        /\ call' = [fn |-> "displayCurrentConcentrations", doses |-> ds, now |-> now,
                    bodyWeight |-> Dec(70, 1), age |-> 25]
        /\ ret' = displayCurrentConcentrations(ds, Dec(70, 1), 25, now)
        /\ keUsed' = NaN
        /\ table' = tableAfterCalls(startedBy(ds, now), 25, table)
        /\ UNCHANGED session

\* profiles handed to oneCompartmentModel: two of the table, one whose
\* absorption and elimination rate constants are equal, and one whose
\* elimination rate constant equals the absorption rate constant once
\* multiplied by 0.8
EngineProfiles ==
    { ParamTable.thc.oral,
      ParamTable.cbd.inhaled,
      [ bioavailability |-> Dec(5, 10), absorptionRate |-> Dec(4, 10),
        eliminationRate |-> Dec(4, 10), volumeOfDistribution |-> Dec(1, 1),
        halfLife |-> Dec(17, 10), tmax |-> Dec(1, 1) ],
      [ bioavailability |-> Dec(5, 10), absorptionRate |-> Dec(4, 10),
        eliminationRate |-> Dec(5, 10), volumeOfDistribution |-> Dec(1, 1),
        halfLife |-> Dec(14, 10), tmax |-> Dec(1, 1) ] }

\* oneCompartmentModel called the way calculateConcentration calls it, on the
\* age-adjusted copy of a profile
CallOneCompartmentModel ==
    /\ call = NoCall
    /\ \E dose \in EngineDoses, params \in EngineProfiles, timeHours \in EngineTimes,
          bodyWeight \in EngineWeights, age \in EngineAges :
        LET adjustedParams == adjustParams(params, age)
        IN  /\ call' = [fn |-> "oneCompartmentModel", dose |-> dose,
                        params |-> adjustedParams, timeHours |-> timeHours,
                        bodyWeight |-> bodyWeight, age |-> age]
            /\ ret' = oneCompartmentModel(dose, adjustedParams, timeHours, bodyWeight)
            /\ keUsed' = oneCompartmentKe(adjustedParams)
            /\ table' = table
            /\ UNCHANGED session

NextEngine ==
    \/ CallGetDrugParams
    \/ CallConvertDose
    \/ CallCalculateConcentration
    \/ CallGenerateCurve
    \/ CallGetCurrentConcentration
    \/ CallGetImpairmentLevel
    \/ CallNormalizeToSubjectiveEffects
    \/ CallDisplayCurrentConcentrations
    \/ CallOneCompartmentModel

SpecEngine == Init /\ [][NextEngine]_vars

----------------------------------------------------------------------------
(* The engine called again and again: calls follow one another, each recorded *)
(* with the function and the age of the call it follows                       *)

SequenceDrugs == {"alcohol", "thc", "cbd", "mdma", "caffeine"}
SequenceRoutes == {"oral", "inhaled"}
SequenceTimes == {0, Dec(1, 1)}
SequenceWeights == {Dec(70, 1), Dec(82, 1)}
SequenceAges == {25, 66}
SequenceDurations == {0 - Dec(1, 1), Dec(1, 1)}
SequenceEntries ==
    { [id |-> 1, drug |-> drugType, dose |-> Dec(2, 1), unit |-> "g", route |-> "oral",
       time |-> time] : drugType \in {"thc", "mdma"}, time \in {<<0>>, <<20>>} }

\* the call that the next one follows
Previous ==
    [fn |-> call.fn, age |-> IF "age" \in DOMAIN call THEN call.age ELSE 0]

ThenGetDrugParams ==
    \E drugType \in SequenceDrugs, route \in SequenceRoutes :
        /\ call' = [fn |-> "getDrugParams", drugType |-> drugType, route |-> route,
                    after |-> Previous]
        /\ ret' = getDrugParams(drugType, route)
        /\ keUsed' = NaN
        /\ table' = ParamTable
        /\ UNCHANGED session

ThenCalculateConcentration ==
    \E drugType \in SequenceDrugs, route \in SequenceRoutes, timeHours \in SequenceTimes,
       bodyWeight \in SequenceWeights, age \in SequenceAges :
        /\ call' = [fn |-> "calculateConcentration", dose |-> Dec(10, 1),
                    drugType |-> drugType, route |-> route, timeHours |-> timeHours,
                    bodyWeight |-> bodyWeight, age |-> age, after |-> Previous]
        /\ ret' = calculateConcentration(Dec(10, 1), drugType, route, timeHours,
                                         bodyWeight, age)
        /\ keUsed' = keEntering(drugType, route, age)
        /\ table' = tableAfterCalculateConcentration(drugType, route, age)
        /\ UNCHANGED session

ThenGenerateCurve ==
    \E drugType \in {"thc", "alcohol"}, age \in SequenceAges,
       duration \in SequenceDurations :
        /\ call' = [fn |-> "generateCurve", dose |-> Dec(10, 1), drugType |-> drugType,
                    route |-> "oral", startTime |-> 0, bodyWeight |-> Dec(70, 1),
                    age |-> age, duration |-> duration, after |-> Previous]
        /\ ret' = generateCurve(Dec(10, 1), drugType, "oral", 0, Dec(70, 1), age, duration)
        /\ keUsed' = NaN
        /\ table' = tableAfterCalls(IF generateCurveFrom(0, duration) = <<>> THEN <<>>
                                    ELSE <<[drug |-> drugType, route |-> "oral"]>>,
                                    age, table)
        /\ UNCHANGED session

ThenGetCurrentConcentration ==
    \E doseEntry \in SequenceEntries, currentTime \in {10 * MsPerMinute, 80 * MsPerMinute},
       age \in SequenceAges :
        /\ call' = [fn |-> "getCurrentConcentration", doseEntry |-> doseEntry,
                    currentTime |-> currentTime, bodyWeight |-> Dec(70, 1), age |-> age,
                    after |-> Previous]
        /\ ret' = getCurrentConcentration(doseEntry, currentTime, Dec(70, 1), age)
        /\ keUsed' = NaN
        /\ table' = tableAfterCalls(startedBy(<<doseEntry>>, currentTime), age, table)
        /\ UNCHANGED session

NextCalls ==
    \/ ThenGetDrugParams
    \/ ThenCalculateConcentration
    \/ ThenGenerateCurve
    \/ ThenGetCurrentConcentration

SpecCalls == Init /\ [][NextCalls]_vars

----------------------------------------------------------------------------
(* Properties of the engine, read off a call and its result *)

\* the (substance, route) pairs the parameter table gives a profile
SupportedPairs ==
    { <<"alcohol", "oral">>, <<"thc", "oral">>, <<"thc", "inhaled">>,
      <<"thc", "liquid">>, <<"cbd", "oral">>, <<"cbd", "inhaled">>,
      <<"cbd", "liquid">>, <<"mdma", "oral">>, <<"psilocybin", "oral">> }

CalledCalculateConcentration == call.fn = "calculateConcentration"

CalledOnSupportedPair == <<call.drugType, call.route>> \in SupportedPairs

C2_ZeroBeforeDoseAndForZeroDose ==
    ( /\ CalledCalculateConcentration
      /\ CalledOnSupportedPair
      /\ (call.timeHours <= 0 \/ call.dose = 0) )
    => ret = 0

\* a call before the dose's time with a dose that is not 0
C2_Witness ==
    /\ CalledCalculateConcentration
    /\ CalledOnSupportedPair
    /\ call.timeHours < 0
    /\ call.dose # 0
    /\ ret = 0

\* C3: for every (substance, route) pair without a profile in the parameter
\* table calculateConcentration returns 0, for every dose, elapsed time, weight
\* and age.
C3_UnsupportedPairGivesZero ==
    (CalledCalculateConcentration /\ ~CalledOnSupportedPair) => ret = 0

\* C4: getDrugParams returns the table's profile for exactly the nine supported
\* pairs and null for every other pair.
C4_ProfileExactlyForSupportedPairs ==
    call.fn = "getDrugParams" =>
        IF CalledOnSupportedPair
        THEN ret = ParamTable[call.drugType][call.route]
        ELSE ret = null

\* the spec's rule table for dose normalisation, on four-decimal numbers
DoseRule(x, unit, substance) ==
    IF unit = "g" THEN 1000 * x
    ELSE IF unit = "drinks" /\ substance = "alcohol" THEN 14000 * x
    ELSE IF unit = "ml" /\ substance = "alcohol" THEN (x * 789 * 4) \div 10
    ELSE x

\* C5: convertDose agrees with the rule table for every quantity, unit and
\* substance: 'g' gives 1000 x; 'drinks' with alcohol 14000 x; 'ml' with alcohol
\* x * 789 * 0.4; 'mg', an unrecognized unit, and 'ml' or 'drinks' with another
\* substance give x unchanged.
C5_ConvertDoseRuleTable ==
    call.fn = "convertDose" => ret = DoseRule(call.dose, call.unit, call.drugType)

\* a volume of a substance other than alcohol, left unchanged
C5_Witness ==
    /\ call.fn = "convertDose"
    /\ call.unit = "ml"
    /\ call.drugType = "thc"
    /\ call.dose = Dec(15, 10)
    /\ ret = Dec(15, 10)

\* C6: for THC, CBD, MDMA and psilocybin the elimination rate constant that
\* enters the concentration formula when age > 65 is 0.8 times the one that
\* enters it when age <= 65.
C6_EliminationSlowedAbove65 ==
    ( /\ CalledCalculateConcentration
      /\ CalledOnSupportedPair
      /\ call.drugType \in {"thc", "cbd", "mdma", "psilocybin"} )
    => keUsed = IF call.age > 65
                THEN (8 * keEntering(call.drugType, call.route, 65)) \div 10
                ELSE keEntering(call.drugType, call.route, 65)

\* the samples of a generateCurve result, as elapsed milliseconds
CurveElapsed(i) == ret.timePoints[i] - call.startTime

\* the loop's increment after a sample at the given elapsed time
CurveGapAfter(elapsedMs) ==
    IF elapsedMs <= 12 * MsPerHour THEN 15 * MsPerMinute ELSE 60 * MsPerMinute

\* C9: generateCurve returns samples in strictly ascending time order starting
\* at the start timestamp; a sample at an elapsed time <= 12 hours is followed
\* 15 minutes later by the next one and a later sample 60 minutes later, as
\* long as that does not pass durationHours; no sample lies beyond
\* durationHours; timePoints and concentrations have equal length and
\* concentrations[i] is calculateConcentration at the elapsed time of
\* timePoints[i].
C9_CurveSampling ==
    call.fn = "generateCurve" =>
        LET n == Len(ret.timePoints)
            durationMs == HoursToMs(call.duration)
        IN  /\ Len(ret.concentrations) = n
            /\ IF call.duration < 0 THEN n = 0
               ELSE /\ n >= 1
                    /\ ret.timePoints[1] = call.startTime
                    /\ CurveElapsed(n) + CurveGapAfter(CurveElapsed(n)) > durationMs
            /\ \A i \in 1..n : CurveElapsed(i) <= durationMs
            /\ \A i \in 1..(n - 1) :
                 ret.timePoints[i + 1] =
                     ret.timePoints[i] + CurveGapAfter(CurveElapsed(i))
            /\ \A i \in 1..n :
                 ret.concentrations[i] =
                     calculateConcentration(call.dose, call.drugType, call.route,
                                            MsToHours(CurveElapsed(i)),
                                            call.bodyWeight, call.age)

\* a 16-hour curve: 49 quarter-hour samples up to 12 h, one at 12 h 15 min and
\* hourly ones up to 15 h 15 min
C9_Witness ==
    /\ call.fn = "generateCurve"
    /\ call.duration = Dec(16, 1)
    /\ call.drugType = "thc"
    /\ Len(ret.timePoints) = 53
    /\ CurveElapsed(53) = 15 * MsPerHour + 15 * MsPerMinute
    /\ ret.concentrations[5] > 0

\* the elapsed hours getCurrentConcentration computes for its call
CurrentElapsedHours == MsToHours(call.currentTime - ParseDate(call.doseEntry.time))

\* C10: getCurrentConcentration takes the elapsed hours to be the evaluation
\* time minus the dose's time; it returns 0 when they are negative and
\* otherwise calculateConcentration(convertDose(quantity, unit, substance),
\* substance, route, elapsed hours, weight, age), which is 0 when the elapsed
\* time is exactly 0.
C10_CurrentConcentration ==
    call.fn = "getCurrentConcentration" =>
        LET e == call.doseEntry
        IN  /\ CurrentElapsedHours < 0 => ret = 0
            /\ CurrentElapsedHours = 0 => ret = 0
            /\ CurrentElapsedHours >= 0 =>
                 ret = calculateConcentration(convertDose(e.dose, e.unit, e.drug),
                                              e.drug, e.route, CurrentElapsedHours,
                                              call.bodyWeight, call.age)

\* two drinks, an hour after they were taken
C10_Witness ==
    /\ call.fn = "getCurrentConcentration"
    /\ call.doseEntry.drug = "alcohol"
    /\ call.doseEntry.unit = "drinks"
    /\ call.doseEntry.dose = Dec(2, 1)
    /\ CurrentElapsedHours = Dec(1, 1)
    /\ ret > Dec(30, 1)
    /\ IsFinite(ret)

----------------------------------------------------------------------------
(* Properties of the plot drawn by updatePlot, read off `plotted` and the dose
   list it was drawn from *)

\* the substances of the dose list
ListedDrugs == {doses[j].drug : j \in 1..Len(doses)}

\* what the claim has the entry contribute at grid time t
ClaimedContribution(entry, t, bodyWeight, age) ==
    IF ParseDate(entry.time) <= t
    THEN calculateConcentration(convertDose(entry.dose, entry.unit, entry.drug),
                                entry.drug, entry.route,
                                MsToHours(t - ParseDate(entry.time)), bodyWeight, age)
    ELSE 0

\* the sum of the contributions at grid time t of the first j entries of the
\* list that are of the substance
RECURSIVE ClaimedSum(_, _, _, _, _)
ClaimedSum(j, drug, t, bodyWeight, age) ==
    IF j = 0 THEN 0
    ELSE ClaimedSum(j - 1, drug, t, bodyWeight, age)
         + ( IF doses[j].drug = drug
             THEN ClaimedContribution(doses[j], t, bodyWeight, age)
             ELSE 0 )

\* C7: the plot has exactly one series per substance of the dose list, whatever
\* the routes of its doses; each series is defined on one grid of 15-minute
\* steps, and its value at every grid point is the sum, over the doses of that
\* substance administered at or before the grid time, of
\* calculateConcentration(convertDose(dose), substance, the dose's route, grid
\* time minus administration time, weight, age); later doses contribute 0.
C7_CombinedSeriesIsSumOfDoses ==
    plotted.drawn =>
        LET traces == plotted.plotData
        IN  /\ Len(traces) = Cardinality(ListedDrugs)
            /\ {traces[k].drug : k \in 1..Len(traces)} = ListedDrugs
            /\ \A k \in 1..Len(traces) :
                 LET x == traces[k].x
                     y == traces[k].y
                 IN  /\ Len(x) = Len(y)
                     /\ Len(x) >= 1
                     /\ \A i \in 1..(Len(x) - 1) : x[i + 1] = x[i] + 15 * MsPerMinute
                     /\ \A i \in 1..Len(x) :
                          y[i] = ClaimedSum(Len(doses), traces[k].drug, x[i],
                                            plotted.bodyWeight, plotted.age)

\* THC taken by mouth at minute 0 and inhaled at minute 20, in one series: at
\* the grid time of minute 15 only the first dose counts, from minute 30 both
C7_Witness ==
    /\ plotted.drawn
    /\ Len(doses) = 2
    /\ doses[1].drug = "thc" /\ doses[1].route = "oral" /\ doses[1].time = <<0>>
    /\ doses[2].drug = "thc" /\ doses[2].route = "inhaled" /\ doses[2].time = <<20>>
    /\ Len(plotted.plotData) = 1
    /\ plotted.plotData[1].x[2] = 15 * MsPerMinute
    /\ plotted.plotData[1].y[2] > 0
    /\ plotted.plotData[1].y[3] > plotted.plotData[1].y[2]

\* the list holds two entries alike in substance, route, quantity, unit and
\* administration time
TwoIdenticalEntries ==
    /\ Len(doses) = 2
    /\ doses[1].drug = doses[2].drug
    /\ doses[1].route = doses[2].route
    /\ doses[1].dose = doses[2].dose
    /\ doses[1].unit = doses[2].unit
    /\ doses[1].time = doses[2].time

\* C8: when the dose list holds two entries identical in substance, route,
\* quantity, unit and administration time, the combined series for the
\* substance is, at every sample point, exactly twice the series drawn from a
\* list that holds one of them.
C8_TwoIdenticalDosesDouble ==
    (plotted.drawn /\ TwoIdenticalEntries) =>
        LET both == plotted.plotData
            single == generateConcentrationPlot(<<doses[1]>>, plotted.bodyWeight,
                                                plotted.age, plotted.now)
        IN  /\ Len(both) = 1
            /\ Len(single) = 1
            /\ both[1].x = single[1].x
            /\ Len(both[1].y) = Len(single[1].y)
            /\ \A i \in 1..Len(both[1].y) : both[1].y[i] = 2 * single[1].y[i]

\* drinks entered twice for the same minute, with the doubled series above 0
C8_Witness ==
    /\ plotted.drawn
    /\ TwoIdenticalEntries
    /\ doses[1].drug = "alcohol"
    /\ doses[1].unit = "drinks"
    /\ \E i \in 1..Len(plotted.plotData[1].y) : plotted.plotData[1].y[i] > 0

----------------------------------------------------------------------------
(* Properties of the normalisation functions *)

\* the band the claim gives a non-negative level x
ClaimedBand(x) ==
    IF x < 10 * Scale THEN "Minimal"
    ELSE IF x < 30 * Scale THEN "Mild"
    ELSE IF x < 50 * Scale THEN "Moderate"
    ELSE IF x < 80 * Scale THEN "Significant"
    ELSE IF x < 150 * Scale THEN "Severe"
    ELSE "Dangerous"

\* C11: for every non-negative input x getImpairmentLevel returns Minimal for
\* x < 10, Mild for 10 <= x < 30, Moderate for 30 <= x < 50, Significant for
\* 50 <= x < 80, Severe for 80 <= x < 150 and Dangerous for x >= 150: each
\* breakpoint belongs to the more severe band.
C11_ImpairmentBands ==
    (call.fn = "getImpairmentLevel" /\ call.alcoholEquivalentBAC >= 0)
    => ret = ClaimedBand(call.alcoholEquivalentBAC)

\* the breakpoint 80 itself, which is already Severe
C11_Witness ==
    /\ call.fn = "getImpairmentLevel"
    /\ call.alcoholEquivalentBAC = Dec(80, 1)
    /\ ret = "Severe"

\* the order Minimal < Mild < Moderate < Significant < Severe < Dangerous
SeverityRank(level) ==
    CASE level = "Minimal" -> 1
      [] level = "Mild" -> 2
      [] level = "Moderate" -> 3
      [] level = "Significant" -> 4
      [] level = "Severe" -> 5
      [] level = "Dangerous" -> 6

\* C12: getImpairmentLevel is monotonic: the category of an input is never more
\* severe than the category of a larger input.
C12_ImpairmentMonotonic ==
    call.fn = "getImpairmentLevel" =>
        \A t2 \in EngineLevels :
            call.alcoholEquivalentBAC < t2 =>
                SeverityRank(ret) <= SeverityRank(getImpairmentLevel(t2))

\* a level in the Significant band, with Severe and Dangerous levels above it
C12_Witness ==
    /\ call.fn = "getImpairmentLevel"
    /\ call.alcoholEquivalentBAC = Dec(50, 1)
    /\ ret = "Significant"
    /\ \E t2 \in EngineLevels :
        call.alcoholEquivalentBAC < t2 /\ getImpairmentLevel(t2) = "Severe"

\* the claim's factor of a substance, in tenths
ClaimedFactorTenths(substance) ==
    CASE substance = "alcohol" -> 10
      [] substance = "thc" -> 80
      [] substance = "cbd" -> 20
      [] substance = "mdma" -> 4
      [] substance = "psilocybin" -> 40
      [] OTHER -> 10

\* C13: normalizeToSubjectiveEffects(c, substance) is c times the substance's
\* factor: alcohol 1.0, thc 8.0, cbd 2.0, mdma 0.4, psilocybin 4.0, and 1.0 for
\* any substance not in the table.
C13_SubjectiveFactor ==
    call.fn = "normalizeToSubjectiveEffects" =>
        ret = (call.concentration * ClaimedFactorTenths(call.drugType)) \div 10

----------------------------------------------------------------------------
(* Properties of the current-status summary *)

\* the current concentration of the j-th entry of the summarised list
SummaryConcentration(j) ==
    getCurrentConcentration(call.doses[j], call.now, call.bodyWeight, call.age)

\* the entries the claim counts: those strictly above the noise floor 0.01
SummaryActive == {j \in 1..Len(call.doses) : Gt(SummaryConcentration(j), Dec(1, 100))}

\* the subjective effects of the active entries among the first j
RECURSIVE SummaryActiveSum(_)
SummaryActiveSum(j) ==
    IF j = 0 THEN 0
    ELSE SummaryActiveSum(j - 1)
         + ( IF j \in SummaryActive
             THEN normalizeToSubjectiveEffects(SummaryConcentration(j),
                                               call.doses[j].drug)
             ELSE 0 )

\* C14: the total subjective effect of the current-status summary is the sum of
\* normalizeToSubjectiveEffects(currentConcentration, substance) over exactly
\* the entries whose current concentration is strictly greater than 0.01;
\* entries at or below that floor, future doses and unsupported combinations
\* contribute nothing; the impairment category is getImpairmentLevel of the
\* total.
C14_SummaryTotal ==
    call.fn = "displayCurrentConcentrations" =>
        /\ ret.totalSubjectiveEffects = SummaryActiveSum(Len(call.doses))
        /\ {ret.shown[k].id : k \in 1..Len(ret.shown)}
             = {call.doses[j].id : j \in SummaryActive}
        /\ ret.impairmentLevel = ClaimedBand(ret.totalSubjectiveEffects)

\* two drinks an hour ago next to 10 mg of THC by mouth, whose concentration is
\* above 0 but below the floor: only the drinks count
C14_Witness ==
    /\ call.fn = "displayCurrentConcentrations"
    /\ call.now = 60 * MsPerMinute
    /\ Len(call.doses) = 2
    /\ call.doses[1].drug = "alcohol"
    /\ call.doses[2].drug = "thc" /\ call.doses[2].unit = "mg"
    /\ SummaryConcentration(2) > 0
    /\ SummaryActive = {1}
    /\ ret.totalSubjectiveEffects = SummaryConcentration(1)
    /\ ret.impairmentLevel = "Significant"

----------------------------------------------------------------------------
(* Properties of the alcohol model *)

CalledOnAlcohol ==
    CalledCalculateConcentration /\ call.drugType = "alcohol" /\ call.route = "oral"

AlcoholTmax == ParamTable.alcohol.oral.tmax

\* the peak BAC computed for the call's dose and body weight:
\* (dose / 1000 * F / 14) * 30 * (82 / bodyWeight)
AlcoholPeak ==
    Mul(Mul(Div(Mul(Div(call.dose, Dec(1000, 1)), ParamTable.alcohol.oral.bioavailability),
                Dec(14, 1)),
            Dec(30, 1)),
        Div(Dec(82, 1), call.bodyWeight))

\* max(0, peakBAC - rate * (t - tmax))
AlcoholLinearDecay(rate) ==
    MathMax(0, Sub(AlcoholPeak, Mul(rate, Sub(call.timeHours, AlcoholTmax))))

C16_EliminationAtProfileCapacity ==
    (CalledOnAlcohol /\ call.timeHours > AlcoholTmax)
    => ret = AlcoholLinearDecay(ParamTable.alcohol.oral.eliminationCapacity)

\* C17: for a fixed alcohol dose and body weight the concentration is
\* non-decreasing in the elapsed time on [0, tmax], non-increasing on
\* [tmax, infinity), and at t = tmax it is the computed peak BAC (here: within
\* one percent of it).
C17_AlcoholRisesThenFalls ==
    (CalledOnAlcohol /\ call.dose >= 0 /\ call.timeHours >= 0) =>
        /\ \A t2 \in EngineTimes :
             LET later == calculateConcentration(call.dose, call.drugType, call.route,
                                                 t2, call.bodyWeight, call.age)
             IN  /\ (call.timeHours <= t2 /\ t2 <= AlcoholTmax) => ret <= later
                 /\ (AlcoholTmax <= call.timeHours /\ call.timeHours <= t2)
                        => ret >= later
        /\ call.timeHours = AlcoholTmax
             => Abs(ret - AlcoholPeak) * 100 <= AlcoholPeak

\* ---------------------------------------------------------------------------
\* C18  For MDMA and for psilocybin the concentration at a fixed elapsed time
\* is the pinned peak times a shape factor that depends only on the elapsed
\* time, the pinned peak being (dose * F / referenceDose) * referencePeak *
\* (referenceWeight / bodyWeight) with (100 mg, 200 ng/mL, 70 kg) for MDMA and
\* (30 mg, 21 ng/mL, 70 kg) for psilocybin; so the concentration is directly
\* proportional to the dose and inversely proportional to the body weight.
\* The equality is up to the resolution of the shape factor, three
\* ten-thousandths of the peak.
CalledOnCalibrated ==
    /\ CalledCalculateConcentration
    /\ call.drugType \in {"mdma", "psilocybin"}
    /\ call.route = "oral"
    /\ call.dose >= 0

ReferenceDose == IF call.drugType = "mdma" THEN Dec(100, 1) ELSE Dec(30, 1)
ReferencePeak == IF call.drugType = "mdma" THEN Dec(200, 1) ELSE Dec(21, 1)
ReferenceWeight == Dec(70, 1)

PinnedPeak ==
    Mul(Mul(Div(Mul(call.dose, ParamTable[call.drugType].oral.bioavailability),
                ReferenceDose),
            ReferencePeak),
        Div(ReferenceWeight, call.bodyWeight))

\* a factor of the substance and the elapsed time alone
ShapeFactor(drugType, t) ==
    LET ke == Div(Dec(693, 1000), ParamTable[drugType].oral.halfLife)
        ka == Div(Dec(3, 1), ParamTable[drugType].oral.tmax)
    IN  IF t <= 0 THEN 0
        ELSE MathMax(0, Div(Sub(MathExp(Mul(Neg(ke), t)), MathExp(Mul(Neg(ka), t))),
                            Div(ka, Sub(ka, ke))))

C18_PinnedPeakTimesShape ==
    CalledOnCalibrated =>
        Abs(ret - Mul(PinnedPeak, ShapeFactor(call.drugType, call.timeHours)))
            <= Mul(PinnedPeak, 3) + 3

C18_Witness ==
    /\ CalledOnCalibrated
    /\ call.drugType = "psilocybin"
    /\ call.dose = Dec(150, 1)
    /\ call.bodyWeight = Dec(50, 1)
    /\ call.timeHours = Dec(2, 1)
    /\ call.age = 66
    /\ ret > Dec(38, 1)
    /\ ret < Dec(39, 1)

\* ---------------------------------------------------------------------------
\* C19  For 150 mg of MDMA taken orally by a 70 kg person aged 25,
\* calculateConcentration at the elapsed time tmax = 2 h is within a small
\* tolerance (five percent) of 1.5 times the 100 mg reference peak, that is of
\* 300 ng/mL.
CalledOnMdmaScenario ==
    /\ CalledCalculateConcentration
    /\ call.drugType = "mdma"
    /\ call.route = "oral"
    /\ call.dose = Dec(150, 1)
    /\ call.bodyWeight = Dec(70, 1)
    /\ call.age = 25
    /\ call.timeHours = ParamTable.mdma.oral.tmax

MdmaScenarioPeak == Mul(Dec(15, 10), Dec(200, 1))

C19_MdmaScenarioNearReferencePeak ==
    CalledOnMdmaScenario => Abs(ret - MdmaScenarioPeak) * 20 <= MdmaScenarioPeak

\* what the scenario's call returns: between 167 and 168 ng/mL
C19_MdmaScenarioActual ==
    CalledOnMdmaScenario => (Dec(167, 1) < ret /\ ret < Dec(168, 1))

\* ---------------------------------------------------------------------------
\* C20  oneCompartmentModel called with an elapsed time > 0 and a profile
\* whose absorption rate constant equals its (age-adjusted) elimination rate
\* constant returns a defined, finite, non-negative concentration: the
\* division by (ka - ke) is guarded, so that no NaN is produced.
CalledOnEqualRateConstants ==
    /\ call.fn = "oneCompartmentModel"
    /\ call.timeHours > 0
    /\ call.params.absorptionRate = call.params.eliminationRate

C20_EqualRateConstantsGuarded ==
    CalledOnEqualRateConstants => (IsFinite(ret) /\ ret >= 0)

\* what the call returns instead: 0 / 0 or Infinity * 0, that is NaN
C20_EqualRateConstantsActual ==
    CalledOnEqualRateConstants => IsNaN(ret)

\* ---------------------------------------------------------------------------
\* C21  Each substance identifier is routed to exactly one model on every
\* call, whatever the route, dose, time, weight or age: alcohol to the alcohol
\* model, mdma to the MDMA model, psilocybin to the psilocybin model, and every
\* other substance that has a profile (thc, cbd) to the one-compartment model.
\* Read off the result: the value returned is the value of the claimed model
\* on the age-adjusted profile.
ClaimedModelValue ==
    LET profile == adjustParams(ParamTable[call.drugType][call.route], call.age)
    IN  CASE call.drugType = "alcohol" ->
                alcoholModel(call.dose, profile, call.timeHours, call.bodyWeight)
          [] call.drugType = "mdma" ->
                mdmaModel(call.dose, profile, call.timeHours, call.bodyWeight)
          [] call.drugType = "psilocybin" ->
                psilocybinModel(call.dose, profile, call.timeHours, call.bodyWeight)
          [] call.drugType \in {"thc", "cbd"} ->
                oneCompartmentModel(call.dose, profile, call.timeHours, call.bodyWeight)

C21_StaticDispatch ==
    (CalledCalculateConcentration /\ CalledOnSupportedPair) => ret = ClaimedModelValue

\* a call on mdma whose value the one-compartment model would not give
C21_Witness ==
    /\ CalledCalculateConcentration
    /\ call.drugType = "mdma"
    /\ call.route = "oral"
    /\ call.dose = Dec(150, 1)
    /\ call.timeHours = Dec(2, 1)
    /\ ret = ClaimedModelValue
    /\ ret # oneCompartmentModel(call.dose, adjustParams(ParamTable.mdma.oral, call.age),
                                 call.timeHours, call.bodyWeight)

\* ---------------------------------------------------------------------------
\* C22  The parameter table is read-only: after any sequence of
\* calculateConcentration, generateCurve and getCurrentConcentration calls,
\* including calls with age > 65 that apply the 0.8 elimination adjustment,
\* getDrugParams returns for every (substance, route) the same profile values
\* as before the first call, so the age adjustment never accumulates across
\* calls.  Every call leaves the table with the values of the literal, and a
\* call of getDrugParams on a pair of the table returns those values.
C22_ParameterTableReadOnly ==
    /\ table = ParamTable
    /\ (call.fn = "getDrugParams" /\ CalledOnSupportedPair)
           => ret = ParamTable[call.drugType][call.route]

\* the profile of thc by mouth read right after a call of
\* calculateConcentration with age 66
C22_Witness ==
    /\ call.fn = "getDrugParams"
    /\ call.drugType = "thc"
    /\ call.route = "oral"
    /\ call.after.fn = "calculateConcentration"
    /\ call.after.age = 66
    /\ ret.eliminationRate = Dec(21, 1000)

\* ---------------------------------------------------------------------------
\* C23  A dose entry is immutable once added: after any sequence of addDose,
\* removeDose, clearAllDoses, updatePlot and getCurrentConcentration, every
\* entry still in the dose list has the same substance, route, quantity, unit,
\* time and id as when it was added, and the surviving entries keep their
\* insertion order; the computation operations (updatePlot, with the
\* getCurrentConcentration calls of its summary) leave the list unchanged.
\* As a property of every step: the list after it is the list before it with
\* entries left out, or with one entry added at the end, and a step that draws
\* a plot leaves the list as it was.
RECURSIVE IsSubsequence(_, _)
IsSubsequence(a, b) ==
    IF a = <<>> THEN TRUE
    ELSE IF b = <<>> THEN FALSE
    ELSE \/ (Head(a) = Head(b) /\ IsSubsequence(Tail(a), Tail(b)))
         \/ IsSubsequence(a, Tail(b))

EntriesKept ==
    \/ IsSubsequence(doses', doses)
    \/ /\ Len(doses') = Len(doses) + 1
       /\ SubSeq(doses', 1, Len(doses)) = doses

C23_DoseEntriesImmutable ==
    [][ /\ EntriesKept
        /\ plotted'.drawn => doses' = doses ]_vars

\* a plot drawn from two entries listed in the order they were added, the
\* later dose first
C23_Witness ==
    /\ plotted.drawn
    /\ Len(doses) = 2
    /\ doses[1].time = <<20>>
    /\ doses[2].time = <<0>>
    /\ doses[1].id < doses[2].id

\* ---------------------------------------------------------------------------
\* C24  updatePlot is idempotent: running it again with the dose list, body
\* weight and age unchanged produces the same per-substance concentration and
\* subjective-effect series as the first run and leaves the session state
\* unchanged.
\* A step is a second run when a plot is drawn before it and after it.
RunAgain ==
    /\ plotted.drawn
    /\ plotted'.drawn
    /\ plotted'.bodyWeight = plotted.bodyWeight
    /\ plotted'.age = plotted.age

SameSeries ==
    /\ plotted'.plotData = plotted.plotData
    /\ plotted'.subjectivePlotData = plotted.subjectivePlotData
    /\ doses' = doses

SameWindow ==
    \/ roundedNow(plotted'.now) = roundedNow(plotted.now)
    \/ \A i \in 1..Len(doses) : ParseDate(doses[i].time) <= roundedNow(plotted.now)

C25_PlottedConcentrationsNonNegative ==
    plotted.drawn =>
        \A k \in 1..Len(plotted.plotData) :
            \A i \in 1..Len(plotted.plotData[k].y) :
                IsFinite(plotted.plotData[k].y[i]) /\ plotted.plotData[k].y[i] >= 0

\* the same for lists whose quantities are all above zero
C25_NonNegativeForPositiveDoses ==
    (plotted.drawn /\ \A j \in 1..Len(doses) : doses[j].dose > 0) =>
        \A k \in 1..Len(plotted.plotData) :
            \A i \in 1..Len(plotted.plotData[k].y) :
                IsFinite(plotted.plotData[k].y[i]) /\ plotted.plotData[k].y[i] >= 0

\* ---------------------------------------------------------------------------
\* C26  addDose called with a dose field that is empty, non-numeric or zero, or
\* with an empty time field, reports a validation message and leaves the dose
\* list unchanged; in every other case it appends exactly one new entry at the
\* end of the list.
Digits == {"0", "1", "2", "3", "4", "5", "6", "7", "8", "9"}

\* a dose text that is empty, holds no digit, or writes zero
DoseTextTurnedAway(text) ==
    \/ text = <<>>
    \/ \A i \in 1..Len(text) : text[i] \notin Digits
    \/ \A i \in 1..Len(text) : text[i] \in {"0", ".", "-", "+"}

AddDoseOutcome(drugType, doseText, doseUnit, route, timeOfDose) ==
    IF DoseTextTurnedAway(doseText) \/ timeOfDose = <<>>
    THEN /\ alertMsg' = "Please fill in dose and time fields"
         /\ doses' = doses
    ELSE /\ Len(doses') = Len(doses) + 1
         /\ SubSeq(doses', 1, Len(doses)) = doses
         /\ doses'[Len(doses')].drug = drugType
         /\ doses'[Len(doses')].unit = doseUnit
         /\ doses'[Len(doses')].route = route
         /\ doses'[Len(doses')].time = timeOfDose
         /\ alertMsg' = "none"

C26_AddDoseValidation ==
    [][ \A drugType \in InputDrugs, doseText \in InputDoseTexts, doseUnit \in InputUnits,
           route \in InputRoutes, timeOfDose \in InputTimes :
            addDose(drugType, doseText, doseUnit, route, timeOfDose)
                => AddDoseOutcome(drugType, doseText, doseUnit, route, timeOfDose) ]_vars

\* the message shown while an entry added before it is still listed
C26_Witness ==
    /\ alertMsg = "Please fill in dose and time fields"
    /\ Len(doses) = 1
    /\ doses[1].dose < 0

\* ---------------------------------------------------------------------------
\* C27  A plot and a current-status summary are only ever computed from a
\* non-empty dose list: updatePlot on an empty list (initially, after
\* clearAllDoses, or after removeDose has removed the last entry) reports a
\* validation message, invokes no plot generation and changes no state.
C27_NoPlotFromEmptyList ==
    [][ /\ plotted'.drawn => (Len(doses') > 0 /\ Len(plotted'.plotData) > 0)
        /\ (Len(doses) = 0 /\ UpdatePlot) =>
               /\ alertMsg' = "Please add at least one dose to generate a plot"
               /\ ~plotted'.drawn
               /\ UNCHANGED <<doses, clock>> ]_vars

\* the message shown for an empty list, later than the session's start
C27_Witness ==
    /\ alertMsg = "Please add at least one dose to generate a plot"
    /\ doses = <<>>
    /\ ~plotted.drawn
    /\ clock = 70 * MsPerMinute

\* ---------------------------------------------------------------------------
\* C28  After any sequence of addDose, removeDose and clearAllDoses, the
\* entries in the dose list have pairwise distinct ids, so removeDose(id)
\* removes at most one entry and leaves every other entry in the list.
C28_DistinctIds ==
    \A i, j \in 1..Len(doses) : i # j => doses[i].id # doses[j].id

\* ids follow the clock: along the list they never decrease, and two entries
\* have the same id only when added at the same clock reading
C28_IdsInInsertionOrder ==
    \A i, j \in 1..Len(doses) : i < j => doses[i].id <= doses[j].id

\* ---------------------------------------------------------------------------
\* C29  For the same dose list, weight, age and clock reading, the
\* subjective-effects plot has one series per substance with the same time
\* points as that substance's concentration series, and each of its values
\* equals the corresponding concentration value multiplied by that substance's
\* subjective-effects factor.
C29_SubjectiveSeriesIsScaledConcentration ==
    plotted.drawn =>
        LET conc == plotted.plotData
            subj == plotted.subjectivePlotData
        IN  /\ Len(subj) = Len(conc)
            /\ \A k \in 1..Len(conc) :
                /\ subj[k].drug = conc[k].drug
                /\ \A m \in 1..Len(conc) : m # k => conc[m].drug # conc[k].drug
                /\ subj[k].x = conc[k].x
                /\ Len(subj[k].y) = Len(conc[k].y)
                /\ \A i \in 1..Len(conc[k].y) :
                     subj[k].y[i] = Mul(conc[k].y[i],
                                        getSubjectiveEffectsFactor(conc[k].drug))

\* two THC doses: a value of the subjective series that is eight times the
\* concentration, above zero
C29_Witness ==
    /\ plotted.drawn
    /\ Len(doses) = 2
    /\ doses[1].drug = "thc" /\ doses[2].drug = "thc"
    /\ doses[1].time # doses[2].time
    /\ \E i \in 1..Len(plotted.plotData[1].y) :
        /\ plotted.plotData[1].y[i] > 0
        /\ plotted.subjectivePlotData[1].y[i] = 8 * plotted.plotData[1].y[i]

\* ---------------------------------------------------------------------------
\* C30  For every set of alcohol doses, the combined alcohol series reaches 0
\* within its plotted window, which ends 16 hours after the latest alcohol
\* dose: the last sample of the alcohol series is 0.
C30_AlcoholSeriesEndsAtZero ==
    plotted.drawn =>
        \A k \in 1..Len(plotted.plotData) :
            plotted.plotData[k].drug = "alcohol" =>
                plotted.plotData[k].y[Len(plotted.plotData[k].y)] = 0

\* the window does end within 16 hours of the latest alcohol dose, and less
\* than a grid step before that
C30_AlcoholWindow ==
    plotted.drawn =>
        \A k \in 1..Len(plotted.plotData) :
            plotted.plotData[k].drug = "alcohol" =>
                LET last == plotted.plotData[k].x[Len(plotted.plotData[k].x)]
                    latestDose ==
                        LatestOf({ParseDate(doses[j].time) :
                                    j \in {n \in 1..Len(doses) : doses[n].drug = "alcohol"}})
                IN  /\ last <= latestDose + 16 * MsPerHour
                    /\ last > latestDose + 16 * MsPerHour - 15 * MsPerMinute

====
